---- MODULE Spec2Model ----
(***************************************************************************)
(* A model of pf/accounting.py: the daily aggregators (calc_cashflow,      *)
(* calc_income), the statement builders (balance_sheet, income_statement,  *)
(* cashflow_statement) and the net-worth calculators (calculate_net_worth, *)
(* calculate_growth).                                                      *)
(*                                                                         *)
(* Numbers: amounts and balances are integers.  A quotient the code        *)
(* computes in floating point is kept as a fraction [n |-> _, d |-> _]     *)
(* with d >= 0; d = 0 stands for the non-finite results of IEEE division   *)
(* by zero: n > 0 is +inf, n < 0 is -inf and n = 0 is NaN (also pandas'    *)
(* missing value).                                                         *)
(*                                                                         *)
(* Dates are day numbers.  A table row is a record; a table is a function  *)
(* from its row keys to rows, or a sequence of rows where the row order    *)
(* matters (transactions, growth).                                         *)
(***************************************************************************)
EXTENDS Integers, Sequences, FiniteSets, TLC

VARIABLES
    op,             \* the function called last ("" before the call)
    error,          \* the exception the call raised ("" when it returned)
    table,          \* statement builders: the daily leaf table passed in
    period,         \* statement builders: the period argument
    nettax,         \* income_statement: the nettax argument
    statement,      \* statement builders: the returned statement, one entry per period
    transactions,   \* aggregators: the transaction table, in row order
    paychecks,      \* calc_income: the paycheck table, by pay date
    tax_type,       \* aggregators: tax-type name -> set of account names
    category_dict,  \* aggregators: the caller's category tree, leaf key -> leaf dict
    leaf_dict,      \* aggregators: cashflow_dict / income_dict as far as it was built
    daily,          \* aggregators: the returned daily table, leaf key -> date -> value
    accounts,       \* net worth: the account table, date -> account -> balance
    net_worth,      \* net worth: the table calculate_net_worth returned
    offsets,        \* calculate_growth: the offsets argument
    growth,         \* calculate_growth: the rows of the returned table, in order
    milestones,     \* get_milestones: the milestones argument
    today,          \* get_milestones: what datetime.datetime.today() returned
    milestone_data, \* get_milestones: the rows of the returned table, in order
    summary,        \* calc_metrics: the caller's summary table, date -> column -> value
    metrics         \* calc_metrics: the tables returned so far, one per call

vars == <<op, error, table, period, nettax, statement,
          transactions, paychecks, tax_type, category_dict, leaf_dict, daily,
          accounts, net_worth, offsets, growth, milestones, today, milestone_data,
          summary, metrics>>

\* the variables of the statement builders and of the aggregators
stmt_vars == <<table, period, nettax, statement>>

agg_vars == <<transactions, paychecks, tax_type, category_dict, leaf_dict, daily>>

worth_vars == <<accounts, net_worth, offsets, growth, milestones, today, milestone_data>>

metric_vars == <<summary, metrics>>

----------------------------------------------------------------------------
(* Bounds of the model *)

\* the largest number of leaves of a category tree handed to a statement builder
MaxLeaves == 2

\* the largest number of rows of the transaction table
MaxTx == 2

\* the largest number of rows (dates) of the account table
MaxRows == 2

----------------------------------------------------------------------------
(* Arithmetic helpers *)

RECURSIVE SumOver(_, _)
\* the sum of f[x] over the x of the finite set S
SumOver(f, S) ==
    IF S = {} THEN 0
    ELSE LET x == CHOOSE y \in S : TRUE
         IN  f[x] + SumOver(f, S \ {x})

Abs(x) == IF x < 0 THEN -x ELSE x

Sign(x) == IF x > 0 THEN 1 ELSE IF x < 0 THEN -1 ELSE 0

NaN == [n |-> 0, d |-> 0]

IsNull(q) == q.d = 0 /\ q.n = 0

IsFinite(q) == q.d # 0

\* the float quotient a / b of two integers
Quot(a, b) ==
    IF b = 0 THEN [n |-> Sign(a), d |-> 0]
    ELSE IF b < 0 THEN [n |-> -a, d |-> -b]
    ELSE [n |-> a, d |-> b]

\* the float product k * q of an integer and a quotient
Scale(k, q) ==
    IF q.d = 0 THEN [n |-> Sign(k) * q.n, d |-> 0]
    ELSE [n |-> k * q.n, d |-> q.d]

\* q = the integer k
QuotIs(q, k) == q.d # 0 /\ q.n = k * q.d

RECURSIVE FiniteSum(_, _)
\* the exact sum of the finite quotients f[x], x in S
FiniteSum(f, S) ==
    IF S = {} THEN [n |-> 0, d |-> 1]
    ELSE LET x == CHOOSE y \in S : TRUE
             r == FiniteSum(f, S \ {x})
         IN  [n |-> f[x].n * r.d + r.n * f[x].d, d |-> f[x].d * r.d]

\* pandas' sum of a group of float cells: missing cells are skipped, a group with
\* no cell left sums to the missing value, and infinities of both signs give NaN
SumSkipNa(f, S) ==
    LET pos == {x \in S : f[x].d = 0 /\ f[x].n > 0}
        neg == {x \in S : f[x].d = 0 /\ f[x].n < 0}
        fin == {x \in S : f[x].d # 0}
    IN  IF pos # {} /\ neg # {} THEN NaN
        ELSE IF pos # {} THEN [n |-> 1, d |-> 0]
        ELSE IF neg # {} THEN [n |-> -1, d |-> 0]
        ELSE IF fin = {} THEN NaN
        ELSE FiniteSum(f, fin)

----------------------------------------------------------------------------
(* Statement builders: balance_sheet, income_statement, cashflow_statement *)

\* the dates of the daily table handed to a statement builder, ascending
Index == 1 .. 3

\* the calendar year of a date of Index
YearOf(d) == IF d <= 2 THEN 2015 ELSE 2016

\* the period arguments: one year, or a list of years
PeriodArgs ==
    { [is_list |-> FALSE, scalar |-> 2015],
      [is_list |-> TRUE, list |-> <<2016>>],
      [is_list |-> TRUE, list |-> <<2015, 2016>>] }

\* the nettax arguments: <<>> stands for None, <<S>> for the set S
NetTaxArgs == { <<>>, <<{}>>, <<{"Revenue"}>> }

\* the leaf keys (Category, Type, Item) a category tree is drawn from.  No tree
\* of the model has a Category "Net": with one, concatenating the Net rows
\* yields repeated row keys, which a function from keys to rows cannot hold.
StmtCategories == {"Revenue", "Taxes"}

StmtTypeItems ==
    { <<"Operating", "Pay">>, <<"Operating", "Bonus">>, <<"Operating", "Total">>,
      <<"Investing", "Pay">>, <<"Total", " ">> }

StmtKeys == { <<c, ti[1], ti[2]>> : c \in StmtCategories, ti \in StmtTypeItems }

StmtTrees == { t \in SUBSET StmtKeys : Cardinality(t) \in 1 .. MaxLeaves }

\* the values a leaf holds on one day
DayValues == {-1, 1}

\* if not isinstance(period, list): period = [period]
ForceList(p) == IF p.is_list THEN p.list ELSE <<p.scalar>>

\* table[p]: the dates of the table that fall in the year named by the string p
PeriodRows(p) == { d \in Index : ToString(YearOf(d)) = p }

MaxOf(S) == CHOOSE x \in S : \A y \in S : y <= x

\* one row of a statement: its '$' and '%' cells
Row(dollar, percent) == [c \in {"$", "%"} |-> IF c = "$" THEN dollar ELSE percent]

\* one column of a frame, as a function of the row key
Col(df, c) == [k \in DOMAIN df |-> df[k][c]]

\* pd.concat([a, b]) of two frames whose row keys are disjoint
Concat(a, b) ==
    [k \in DOMAIN a \cup DOMAIN b |-> IF k \in DOMAIN a THEN a[k] ELSE b[k]]

\* NetByType summing the leaves of one Category only
NetOfOneCategory(dollars) ==
    LET c0 == CHOOSE c \in {k[1] : k \in DOMAIN dollars} : TRUE
    IN  [k \in {<<"Net", j[2], "Total">> : j \in DOMAIN dollars} |->
            SumOver(dollars, {j \in DOMAIN dollars : j[1] = c0 /\ j[2] = k[2]})]

\* p[['$']].sum(level=[0, 1]).sum(level=1), re-keyed ('Net', Type, 'Total'):
\* dollars is the '$' column of the leaves
NetByType(dollars) ==
    LET l01 == [g \in {<<k[1], k[2]>> : k \in DOMAIN dollars} |->
                   SumOver(dollars, {k \in DOMAIN dollars : k[1] = g[1] /\ k[2] = g[2]})]
    IN  [k \in {<<"Net", g[2], "Total">> : g \in DOMAIN l01} |->
            SumOver(l01, {g \in DOMAIN l01 : g[2] = k[2]})]

\* PctOfLevel0 dividing by the sum of the (Category, Type) group instead
PctOfLevel01(dollars) ==
    [k \in DOMAIN dollars |->
        Row(dollars[k],
            Scale(100, Quot(dollars[k],
                            SumOver(dollars, {j \in DOMAIN dollars :
                                                 j[1] = k[1] /\ j[2] = k[2]}))))]

\* df['%'] = 100.0 * df.div(df.sum(level=0), level=0): dollars is the '$' column
PctOfLevel0(dollars) ==
    [k \in DOMAIN dollars |->
        Row(dollars[k],
            Scale(100, Quot(dollars[k],
                            SumOver(dollars, {j \in DOMAIN dollars : j[1] = k[1]}))))]

\* L1Totals grouping by Type alone, across the Categories
L1TotalsByType(df) ==
    [k \in {<<j[1], j[2], "Total">> : j \in DOMAIN df} |->
        LET grp == {j \in DOMAIN df : j[2] = k[2]}
        IN  Row(SumOver(Col(df, "$"), grp), SumSkipNa(Col(df, "%"), grp))]

\* df.sum(level=[0, 1]), re-keyed (Category, Type, 'Total')
L1Totals(df) ==
    [k \in {<<j[1], j[2], "Total">> : j \in DOMAIN df} |->
        LET grp == {j \in DOMAIN df : j[1] = k[1] /\ j[2] = k[2]}
        IN  Row(SumOver(Col(df, "$"), grp), SumSkipNa(Col(df, "%"), grp))]

\* df.sum(level=[0]), re-keyed (Category, 'Total', ' ')
L0Totals(df) ==
    [k \in {<<j[1], "Total", " ">> : j \in DOMAIN df} |->
        LET grp == {j \in DOMAIN df : j[1] = k[1]}
        IN  Row(SumOver(Col(df, "$"), grp), SumSkipNa(Col(df, "%"), grp))]

\* a.combine_first(b): the rows of both; a cell of a wins unless it is missing
CombineFirst(a, b) ==
    [k \in DOMAIN a \cup DOMAIN b |->
        IF k \notin DOMAIN a THEN b[k]
        ELSE IF k \notin DOMAIN b THEN a[k]
        ELSE Row(a[k]["$"], IF IsNull(a[k]["%"]) THEN b[k]["%"] ELSE a[k]["%"])]

\* the body of balance_sheet's loop for the period p (already a string)
BalanceSheetPeriod(balance, p) ==
    LET p_balance  == [k \in DOMAIN balance |-> balance[k][MaxOf(PeriodRows(p))]]
        net        == NetByType(p_balance)
        balance_df == PctOfLevel0(Concat(p_balance, net))
        l1_totals  == L1Totals(balance_df)
        l0_totals  == L0Totals(balance_df)
    IN  CombineFirst(CombineFirst(balance_df, l1_totals), l0_totals)

balance_sheet(balance, period_arg) ==
    LET ps == ForceList(period_arg)
    IN  [i \in 1 .. Len(ps) |->
            [period |-> ToString(ps[i]),
             rows   |-> BalanceSheetPeriod(balance, ToString(ps[i]))]]

\* the body of cashflow_statement's loop for the period p
CashflowStatementPeriod(cashflow, p) ==
    LET p_cashflow  == [k \in DOMAIN cashflow |-> SumOver(cashflow[k], PeriodRows(p))]
        net         == NetByType(p_cashflow)
        cashflow_df == PctOfLevel0(Concat(p_cashflow, net))
        l1_totals   == L1Totals(cashflow_df)
        l0_totals   == L0Totals(cashflow_df)
    IN  CombineFirst(CombineFirst(cashflow_df, l1_totals), l0_totals)

cashflow_statement(cashflow, period_arg) ==
    LET ps == ForceList(period_arg)
    IN  [i \in 1 .. Len(ps) |->
            [period |-> ToString(ps[i]),
             rows   |-> CashflowStatementPeriod(cashflow, ToString(ps[i]))]]

\* nettax = nettax if nettax else {'Taxes'}
NetTaxOrDefault(nt) == IF nt = <<>> \/ nt[1] = {} THEN {"Taxes"} ELSE nt[1]

\* the three Net rows of the income statement; they carry no '%'
IncomeNet(p_income, nt) ==
    LET cats   == {k[1] : k \in DOMAIN p_income}
        before == {<<x, "Total", " ">> : x \in cats \ nt}
        after  == {<<x, "Total", " ">> : x \in cats}
        usd    == Col(p_income, "$")
    IN  [k \in { <<"Net", "Net Income", "Before Taxes">>,
                 <<"Net", "Net Income", "After Taxes">>,
                 <<"Net", "Total", " ">> } |->
            Row(IF k[3] = "Before Taxes" THEN SumOver(usd, before) ELSE SumOver(usd, after),
                NaN)]

\* the body of income_statement's loop for the period p
IncomeStatementPeriod(income, p, nt) ==
    LET leaves    == [k \in DOMAIN income |-> SumOver(income[k], PeriodRows(p))]
        p_income  == PctOfLevel0(leaves)
        l1_totals == L1Totals(p_income)
        l0_totals == L0Totals(p_income)
        totalled  == CombineFirst(CombineFirst(p_income, l1_totals), l0_totals)
    IN  Concat(totalled, IncomeNet(totalled, nt))

income_statement(income, period_arg, nettax_arg) ==
    LET ps == ForceList(period_arg)
    IN  [i \in 1 .. Len(ps) |->
            [period |-> ToString(ps[i]),
             rows   |-> IncomeStatementPeriod(income, ToString(ps[i]),
                                              NetTaxOrDefault(nettax_arg))]]

(* The calls *)

BalanceSheet ==
    /\ op = ""
    /\ \E p \in PeriodArgs :
        /\ period' = p
        /\ statement' = balance_sheet(table, p)
    /\ op' = "balance_sheet"
    /\ UNCHANGED <<error, table, nettax, agg_vars, worth_vars, metric_vars>>

CashflowStatement ==
    /\ op = ""
    /\ \E p \in PeriodArgs :
        /\ period' = p
        /\ statement' = cashflow_statement(table, p)
    /\ op' = "cashflow_statement"
    /\ UNCHANGED <<error, table, nettax, agg_vars, worth_vars, metric_vars>>

IncomeStatement ==
    /\ op = ""
    /\ \E p \in PeriodArgs, nt \in NetTaxArgs :
        /\ period' = p
        /\ nettax' = nt
        /\ statement' = income_statement(table, p, nt)
    /\ op' = "income_statement"
    /\ UNCHANGED <<error, table, agg_vars, worth_vars, metric_vars>>

InitStmt ==
    /\ op = ""
    /\ error = ""
    /\ table \in UNION { [t -> [Index -> DayValues]] : t \in StmtTrees }
    /\ period = [is_list |-> TRUE, list |-> <<>>]
    /\ nettax = <<>>
    /\ statement = <<>>
    /\ transactions = <<>>
    /\ paychecks = <<>>
    /\ tax_type = <<>>
    /\ category_dict = <<>>
    /\ leaf_dict = <<>>
    /\ daily = <<>>
    /\ accounts = <<>>
    /\ net_worth = <<>>
    /\ offsets = <<>>
    /\ growth = <<>>
    /\ milestones = <<>>
    /\ today = <<>>
    /\ milestone_data = <<>>
    /\ summary = <<>>
    /\ metrics = <<>>

NextStmt == BalanceSheet \/ CashflowStatement \/ IncomeStatement

SpecStmt == InitStmt /\ [][NextStmt]_vars

----------------------------------------------------------------------------
(* Claims about the statement builders *)

StmtDone == op \in {"balance_sheet", "income_statement", "cashflow_statement"}

\* the leaves of the tree, its Categories, and the Types of a Category
Leaves == DOMAIN table

TreeCategories == {k[1] : k \in Leaves}

TypesOf(c) == {k[2] : k \in {j \in Leaves : j[1] = c}}

\* a leaf key that is also the key of a synthetic total row
IsTotalKey(k) == k[3] = "Total" \/ (k[2] = "Total" /\ k[3] = " ")

\* in the statement rows of one period, the totals of Category c are the sums
\* of what lies under them
TotalsAreSums(rows, c) ==
    LET usd == Col(rows, "$")
    IN  /\ \A t \in TypesOf(c) :
            usd[<<c, t, "Total">>] = SumOver(usd, {k \in Leaves : k[1] = c /\ k[2] = t})
        /\ usd[<<c, "Total", " ">>] = SumOver(usd, {<<c, t, "Total">> : t \in TypesOf(c)})

\* C1 as stated: in every returned statement, for every period and every
\* Category of the tree, each (Category, Type, 'Total') row holds the sum of the
\* leaf rows under that (Category, Type) and the (Category, 'Total', ' ') row
\* holds the sum of the Category's (Category, Type, 'Total') rows.
C1_TotalsAreSums_AnyTree ==
    StmtDone =>
        \A i \in DOMAIN statement : \A c \in TreeCategories :
            TotalsAreSums(statement[i].rows, c)

\* C1 amended: the same, for every Category none of whose leaves carries the key
\* of a total row (Item 'Total', or Type 'Total' with Item ' ').
C1_TotalsAreSums ==
    StmtDone =>
        \A i \in DOMAIN statement : \A c \in TreeCategories :
            (\A k \in Leaves : k[1] = c => ~IsTotalKey(k))
                => TotalsAreSums(statement[i].rows, c)

\* a statement over two periods whose tree has two leaves under one
\* (Category, Type), neither with the key of a total row
C1_Witness ==
    /\ StmtDone
    /\ Len(statement) = 2
    /\ \E k \in Leaves, j \in Leaves :
        /\ k # j /\ k[1] = j[1] /\ k[2] = j[2]
        /\ ~IsTotalKey(k) /\ ~IsTotalKey(j)
        /\ statement[1].rows[<<k[1], k[2], "Total">>]["$"] # statement[1].rows[k]["$"]

\* the '%' cells of the leaves of Category c are finite and sum to 100
PercentsSumTo100(rows, c) ==
    LET grp == {k \in Leaves : k[1] = c}
        pct == Col(rows, "%")
    IN  /\ \A k \in grp : IsFinite(pct[k])
        /\ QuotIs(FiniteSum(pct, grp), 100)

\* the sum of the '$' cells of the leaves of Category c
LeafSum(rows, c) == SumOver(Col(rows, "$"), {k \in Leaves : k[1] = c})

\* C2 as stated: for every period and every Category of the tree, the '%' of
\* the Category's leaf rows sum to 100, also when its leaf values sum to zero.
C2_PercentsSumTo100_Always ==
    StmtDone =>
        \A i \in DOMAIN statement : \A c \in TreeCategories :
            PercentsSumTo100(statement[i].rows, c)

\* C2 amended: for every period and every Category of the tree whose leaf
\* values do not sum to zero in that period, the '%' of the Category's leaf
\* rows sum to 100.
C2_PercentsSumTo100 ==
    StmtDone =>
        \A i \in DOMAIN statement : \A c \in TreeCategories :
            LeafSum(statement[i].rows, c) # 0
                => PercentsSumTo100(statement[i].rows, c)

\* a statement with a Category of two leaves of different Types whose values
\* differ and do not cancel
C2_Witness ==
    /\ StmtDone
    /\ \E i \in DOMAIN statement : \E k \in Leaves, j \in Leaves :
        /\ k[1] = j[1] /\ k[2] # j[2]
        /\ statement[i].rows[k]["$"] # statement[i].rows[j]["$"]
        /\ LeafSum(statement[i].rows, k[1]) # 0

----------------------------------------------------------------------------
(* Daily aggregators: calc_cashflow, calc_income *)

\* the dates a transaction can carry
TxDates == 1 .. 3

\* the rows a transaction table is made of: a paycheck of 100 or a rent of -50
TxRecords ==
    { [date |-> d, Amount |-> IF c = "Paycheck" THEN 100 ELSE -50, Category |-> c,
       Account_Name |-> a, Labels |-> l] :
        d \in TxDates, c \in {"Paycheck", "Rent"},
        a \in {"Checking", "Brokerage"}, l \in { {}, {"vacation"} } }

TxTables == UNION { [1 .. n -> TxRecords] : n \in 1 .. MaxTx }

\* the paycheck table: pay date -> paycheck fields
PaycheckTable ==
    (1 :> [Salary |-> 1000, Bonus |-> 50]) @@ (2 :> [Salary |-> 1000, Bonus |-> 0])

\* the tax-type table
TaxTypeTable == [realized |-> {"Checking"}, unrealized |-> {"Brokerage"}]

\* a dict entry that is present (<<value>>) or absent (<<>>)
Opt(key, o) == IF o = <<>> THEN <<>> ELSE key :> o[1]

\* a leaf dict as the caller writes it: only the keys given
LeafDict(categories, labels, logic, tax, source, agg) ==
    Opt("categories", categories) @@ Opt("labels", labels) @@ Opt("logic", logic)
        @@ Opt("tax_type", tax) @@ Opt("source", source) @@ Opt("agg", agg)

\* the transaction-sourced leaves: every mix of given and defaulted options
TxLeafDicts ==
    { LeafDict(<<{"Paycheck"}>>, l, g, t, <<>>, <<>>) :
        l \in { <<>>, <<{"vacation"}>> }, g \in { <<>>, <<"not">> },
        t \in { <<>>, <<"unrealized">> } }

\* the paycheck-sourced leaves: default weights, and weights given
PaycheckLeafDicts ==
    { LeafDict(<<{"Salary", "Bonus"}>>, <<>>, <<>>, <<>>, <<"paycheck">>, a) :
        a \in { <<>>, << <<1, 2>> >> } }

K1 == <<"Inflow", "Operating", "Pay">>

K2 == <<"Outflow", "Operating", "Rent">>

\* trees of two leaves: both well-formed, or the second without 'categories'
TwoLeafTrees ==
    { (K1 :> LeafDict(<<{"Paycheck"}>>, <<>>, <<>>, <<>>, <<>>, <<>>))
        @@ (K2 :> LeafDict(<<{"Rent"}>>, <<{}>>, <<"">>, <<"realized">>,
                           <<"transactions">>, <<>>)),
      (K1 :> LeafDict(<<{"Paycheck"}>>, <<>>, <<>>, <<>>, <<>>, <<>>))
        @@ (K2 :> LeafDict(<<>>, <<{"vacation"}>>, <<>>, <<>>, <<>>, <<>>)),
      (K1 :> LeafDict(<<{"Salary", "Bonus"}>>, <<>>, <<>>, <<>>, <<"paycheck">>, <<>>))
        @@ (K2 :> LeafDict(<<>>, <<>>, <<>>, <<"unrealized">>, <<>>, << <<1>> >>)) }

CategoryTrees == [{K1} -> TxLeafDicts \cup PaycheckLeafDicts] \cup TwoLeafTrees

\* the orders in which a dict or a set can be enumerated
Orders(S) ==
    { o \in [1 .. Cardinality(S) -> S] : \A i, j \in DOMAIN o : o[i] = o[j] => i = j }

has_key(v, k) == k \in DOMAIN v

\* if not v2.has_key(k): v2[k] = val
SetDefault(v, k, val) == IF has_key(v, k) THEN v ELSE v @@ (k :> val)

\* np.ones(n)
Ones(n) == [i \in 1 .. n |-> 1]

isdisjoint(a, b) == a \cap b = {}

\* calc_cashflow's default-filling loop; it cannot fail
CleanCashflow(tree) ==
    [k \in DOMAIN tree |->
        SetDefault(SetDefault(SetDefault(tree[k], "labels", {}), "logic", ""),
                   "tax_type", "realized")]

RECURSIVE CleanIncome(_, _, _)
\* calc_income's default-filling loop from the i-th leaf of the order ord on:
\* the tree as it leaves it, and the exception raised if any.  The default of
\* 'agg' reads 'categories'.
CleanIncome(tree, ord, i) ==
    IF i > Len(ord) THEN [category_dict |-> tree, error |-> ""]
    ELSE LET k  == ord[i]
             v3 == SetDefault(SetDefault(SetDefault(tree[k], "source", "transactions"),
                                         "labels", {}), "logic", "")
         IN  IF ~has_key(v3, "agg") /\ ~has_key(v3, "categories")
             THEN [category_dict |-> [tree EXCEPT ![k] = v3], error |-> "KeyError"]
             ELSE LET v4 == IF has_key(v3, "agg") THEN v3
                            ELSE v3 @@ ("agg" :> Ones(Cardinality(v3["categories"])))
                      v5 == SetDefault(v4, "tax_type", "realized")
                  IN  CleanIncome([tree EXCEPT ![k] = v5], ord, i + 1)

\* RowSelected without its last disjunct: an empty 'labels' no longer matches
RowSelectedLabelsOnly(rec, v2, tax) ==
    /\ rec.Category \in v2["categories"]
    /\ rec.Account_Name \in tax[v2["tax_type"]]
    /\ IF v2["logic"] # "" THEN isdisjoint(rec.Labels, v2["labels"])
       ELSE ~isdisjoint(rec.Labels, v2["labels"])

\* RowSelected whose last disjunct tests the row's labels, not the leaf's
RowSelectedUnlabeledRow(rec, v2, tax) ==
    /\ rec.Category \in v2["categories"]
    /\ rec.Account_Name \in tax[v2["tax_type"]]
    /\ \/ IF v2["logic"] # "" THEN isdisjoint(rec.Labels, v2["labels"])
          ELSE ~isdisjoint(rec.Labels, v2["labels"])
       \/ rec.Labels = {}

\* the boolean mask of a transaction-sourced leaf on one row of the table
RowSelected(rec, v2, tax) ==
    /\ rec.Category \in v2["categories"]
    /\ rec.Account_Name \in tax[v2["tax_type"]]
    /\ \/ IF v2["logic"] # "" THEN isdisjoint(rec.Labels, v2["labels"])
          ELSE ~isdisjoint(rec.Labels, v2["labels"])
       \/ v2["labels"] = {}

\* transactions[mask]['Amount'] of a leaf: the selected rows of the table
SelectRows(txs, v2, tax) ==
    [source |-> "transactions",
     rows   |-> {i \in DOMAIN txs : RowSelected(txs[i], v2, tax)}]

\* (v2['agg'] * paychecks[cols]).sum(axis=1), cols being list(v2['categories'])
WeighPaychecks(pay, v2, cols) ==
    [source |-> "paycheck",
     series |-> [d \in DOMAIN pay |->
                    SumOver([i \in DOMAIN cols |-> v2["agg"][i] * pay[d][cols[i]]],
                            DOMAIN cols)]]

RECURSIVE AggregateCashflow(_, _, _, _, _)
\* calc_cashflow's dict comprehension from the i-th leaf of the order on: the
\* dict as far as it was built, and the exception raised if any
AggregateCashflow(txs, tree, tax, ord, i) ==
    IF i > Len(ord) THEN [dict |-> <<>>, error |-> ""]
    ELSE IF ~has_key(tree[ord[i]], "categories") THEN [dict |-> <<>>, error |-> "KeyError"]
    ELSE LET rest == AggregateCashflow(txs, tree, tax, ord, i + 1)
         IN  [dict  |-> (ord[i] :> SelectRows(txs, tree[ord[i]], tax)) @@ rest.dict,
              error |-> rest.error]

RECURSIVE AggregateIncome(_, _, _, _, _, _, _)
\* calc_income's aggregation loop from the i-th leaf of the order on; cols gives
\* for each leaf the order in which list() enumerates its 'categories'
AggregateIncome(txs, pay, tree, tax, ord, cols, i) ==
    IF i > Len(ord) THEN [dict |-> <<>>, error |-> ""]
    ELSE LET k  == ord[i]
             v2 == tree[k]
         IN  IF ~has_key(v2, "categories") THEN [dict |-> <<>>, error |-> "KeyError"]
             ELSE IF v2["source"] # "transactions" /\ Len(v2["agg"]) # Len(cols[k])
             THEN [dict |-> <<>>, error |-> "ValueError"]
             ELSE LET rest == AggregateIncome(txs, pay, tree, tax, ord, cols, i + 1)
                      mine == IF v2["source"] = "transactions"
                              THEN SelectRows(txs, v2, tax)
                              ELSE WeighPaychecks(pay, v2, cols[k])
                  IN  [dict |-> (k :> mine) @@ rest.dict, error |-> rest.error]

\* pd.date_range(transactions.index[-1], transactions.index[0])
DateRange(txs) == txs[Len(txs)].date .. txs[1].date

\* the value of one leaf on the day d: its series grouped by date and summed
DayValue(txs, entry, d) ==
    IF entry.source = "transactions"
    THEN SumOver([i \in DOMAIN txs |-> txs[i].Amount], {i \in entry.rows : txs[i].date = d})
    ELSE IF d \in DOMAIN entry.series THEN entry.series[d] ELSE 0

\* the daily table: one column per leaf over the date range, missing days 0
DailyTable(txs, dict) ==
    [k \in DOMAIN dict |-> [d \in DateRange(txs) |-> DayValue(txs, dict[k], d)]]

calc_cashflow(txs, tree, tax, ord) ==
    LET cleaned == CleanCashflow(tree)
        agg     == AggregateCashflow(txs, cleaned, tax, ord, 1)
    IN  [category_dict |-> cleaned,
         leaf_dict     |-> agg.dict,
         error         |-> agg.error,
         daily         |-> IF agg.error = "" THEN DailyTable(txs, agg.dict) ELSE <<>>]

calc_income(txs, pay, tree, tax, ord, cols) ==
    LET cleaned == CleanIncome(tree, ord, 1)
        agg     == IF cleaned.error # "" THEN [dict |-> <<>>, error |-> cleaned.error]
                   ELSE AggregateIncome(txs, pay, cleaned.category_dict, tax, ord, cols, 1)
    IN  [category_dict |-> cleaned.category_dict,
         leaf_dict     |-> agg.dict,
         error         |-> agg.error,
         daily         |-> IF agg.error = "" THEN DailyTable(txs, agg.dict) ELSE <<>>]

\* for each leaf that has 'categories', an order of enumerating that set
ColumnOrders(tree) ==
    LET withcats == {k \in DOMAIN tree : has_key(tree[k], "categories")}
    IN  { c \in [withcats -> UNION {Orders(tree[k]["categories"]) : k \in withcats}] :
            \A k \in withcats : c[k] \in Orders(tree[k]["categories"]) }

(* The calls.  The order in which Python enumerates the tree's dicts and a    *)
(* leaf's 'categories' set is not fixed by the program: every order is tried. *)

CalcCashflow ==
    /\ op \in {"", "calc_income"}
    /\ \E ord \in Orders(DOMAIN category_dict) :
        LET r == calc_cashflow(transactions, category_dict, tax_type, ord)
        IN  /\ category_dict' = r.category_dict
            /\ leaf_dict' = r.leaf_dict
            /\ error' = r.error
            /\ daily' = r.daily
    /\ op' = "calc_cashflow"
    /\ UNCHANGED <<transactions, paychecks, tax_type, stmt_vars, worth_vars, metric_vars>>

CalcIncome ==
    /\ op \in {"", "calc_cashflow"}
    /\ \E ord \in Orders(DOMAIN category_dict), cols \in ColumnOrders(category_dict) :
        LET r == calc_income(transactions, paychecks, category_dict, tax_type, ord, cols)
        IN  /\ category_dict' = r.category_dict
            /\ leaf_dict' = r.leaf_dict
            /\ error' = r.error
            /\ daily' = r.daily
    /\ op' = "calc_income"
    /\ UNCHANGED <<transactions, paychecks, tax_type, stmt_vars, worth_vars, metric_vars>>

InitAgg ==
    /\ op = ""
    /\ error = ""
    /\ transactions \in TxTables
    /\ paychecks = PaycheckTable
    /\ tax_type = TaxTypeTable
    /\ category_dict \in CategoryTrees
    /\ leaf_dict = <<>>
    /\ daily = <<>>
    /\ table = <<>>
    /\ period = [is_list |-> TRUE, list |-> <<>>]
    /\ nettax = <<>>
    /\ statement = <<>>
    /\ accounts = <<>>
    /\ net_worth = <<>>
    /\ offsets = <<>>
    /\ growth = <<>>
    /\ milestones = <<>>
    /\ today = <<>>
    /\ milestone_data = <<>>
    /\ summary = <<>>
    /\ metrics = <<>>

NextAgg == CalcCashflow \/ CalcIncome

SpecAgg == InitAgg /\ [][NextAgg]_vars

----------------------------------------------------------------------------
(* Claims about the daily aggregators *)

AggDone == op \in {"calc_cashflow", "calc_income"}

\* the leaves whose series was selected from the transaction table
TxLeaves == {k \in DOMAIN leaf_dict : leaf_dict[k].source = "transactions"}

\* the label match as the specification words it
label_match(rec, leaf) ==
    IF leaf["labels"] = {} THEN TRUE
    ELSE IF leaf["logic"] = "" THEN rec.Labels \cap leaf["labels"] # {}
    ELSE rec.Labels \cap leaf["labels"] = {}

\* C3: a transaction is selected for a transaction-sourced leaf if and only if
\* its Category is in leaf.categories, its Account Name is in
\* tax_type[leaf.tax_type] and label_match holds (true for empty leaf.labels,
\* else intersecting under logic '' and disjoint under logic 'not').
C3_SelectedIffMatch ==
    AggDone =>
        \A k \in TxLeaves : \A i \in DOMAIN transactions :
            i \in leaf_dict[k].rows
                <=> /\ transactions[i].Category \in category_dict[k]["categories"]
                    /\ transactions[i].Account_Name
                           \in tax_type[category_dict[k]["tax_type"]]
                    /\ label_match(transactions[i], category_dict[k])

\* a leaf with labels and logic 'not' that selects one row and rejects another,
\* and a leaf without labels that selects a labelled row
C3_Witness ==
    /\ AggDone
    /\ \E k \in TxLeaves :
        \/ /\ category_dict[k]["labels"] # {}
           /\ category_dict[k]["logic"] = "not"
           /\ \E i, j \in DOMAIN transactions :
                /\ i \in leaf_dict[k].rows
                /\ j \notin leaf_dict[k].rows
                /\ transactions[j].Category = transactions[i].Category
                /\ transactions[j].Account_Name = transactions[i].Account_Name

\* C4 as stated: for a leaf with non-empty labels, under either logic, a
\* transaction without labels is excluded from the leaf's series.
C4_UnlabeledExcluded_BothLogics ==
    AggDone =>
        \A k \in TxLeaves : \A i \in DOMAIN transactions :
            (category_dict[k]["labels"] # {} /\ transactions[i].Labels = {})
                => i \notin leaf_dict[k].rows

\* C4 amended: for a leaf with non-empty labels, a transaction without labels
\* is excluded under logic '', and under logic 'not' it is selected exactly
\* when its Category and Account Name match.
C4_UnlabeledExcluded ==
    AggDone =>
        \A k \in TxLeaves : \A i \in DOMAIN transactions :
            (category_dict[k]["labels"] # {} /\ transactions[i].Labels = {})
                => IF category_dict[k]["logic"] = ""
                   THEN i \notin leaf_dict[k].rows
                   ELSE i \in leaf_dict[k].rows
                            <=> /\ transactions[i].Category
                                       \in category_dict[k]["categories"]
                                /\ transactions[i].Account_Name
                                       \in tax_type[category_dict[k]["tax_type"]]

\* an unlabeled paycheck on a matching account meets a leaf with labels and
\* logic '': it is left out
C4_Witness ==
    /\ AggDone
    /\ \E k \in TxLeaves : \E i \in DOMAIN transactions :
        /\ category_dict[k]["labels"] # {}
        /\ category_dict[k]["logic"] = ""
        /\ transactions[i].Labels = {}
        /\ transactions[i].Category \in category_dict[k]["categories"]
        /\ transactions[i].Account_Name \in tax_type[category_dict[k]["tax_type"]]
        /\ i \notin leaf_dict[k].rows

\* C5: a call of calc_income or calc_cashflow leaves the caller's category_dict
\* with exactly the keys and values it had before the call.
C5_TreeNotMutated == [][category_dict' = category_dict]_vars

\* C6: when a leaf of the tree lacks 'categories', the call fails with a
\* ConfigError, and no leaf has been aggregated when it fails.
C6_ConfigErrorBeforeAggregation ==
    (AggDone /\ \E k \in DOMAIN category_dict : ~has_key(category_dict[k], "categories"))
        => (error = "ConfigError" /\ DOMAIN leaf_dict = {})

\* the earliest and the latest date of the transaction table
MinDate == CHOOSE d \in {transactions[i].date : i \in DOMAIN transactions} :
               \A i \in DOMAIN transactions : d <= transactions[i].date

MaxDate == CHOOSE d \in {transactions[i].date : i \in DOMAIN transactions} :
               \A i \in DOMAIN transactions : d >= transactions[i].date

\* C7: after a call that returned, every leaf's daily series has exactly the
\* days MinDate .. MaxDate, whatever the order of the rows, and the entry of a
\* day is the sum of the amounts of the leaf's selected records of that day
\* (0 when there is none).
C7_SeriesCoversDateRange ==
    (AggDone /\ error = "") =>
        \A k \in DOMAIN category_dict :
            /\ DOMAIN daily[k] = MinDate .. MaxDate
            /\ k \in TxLeaves =>
                \A d \in MinDate .. MaxDate :
                    daily[k][d] =
                        SumOver([i \in DOMAIN transactions |-> transactions[i].Amount],
                                {i \in leaf_dict[k].rows : transactions[i].date = d})

----------------------------------------------------------------------------
(* Calendar: a date is its number of days since 1970-01-01 *)

\* the day number of the civil date y-m-d
DaysFromCivil(y, m, d) ==
    LET yy  == IF m <= 2 THEN y - 1 ELSE y
        era == yy \div 400
        yoe == yy - era * 400
        mp  == IF m > 2 THEN m - 3 ELSE m + 9
        doy == (153 * mp + 2) \div 5 + d - 1
        doe == yoe * 365 + yoe \div 4 - yoe \div 100 + doy
    IN  era * 146097 + doe - 719468

\* the civil date [year, month, day] of a day number
CivilFromDays(z) ==
    LET zz  == z + 719468
        era == zz \div 146097
        doe == zz - era * 146097
        yoe == (doe - doe \div 1460 + doe \div 36524 - doe \div 146096) \div 365
        doy == doe - (365 * yoe + yoe \div 4 - yoe \div 100)
        mp  == (5 * doy + 2) \div 153
        d   == doy - (153 * mp + 2) \div 5 + 1
        m   == IF mp < 10 THEN mp + 3 ELSE mp - 9
        y   == yoe + era * 400
    IN  [year |-> IF m <= 2 THEN y + 1 ELSE y, month |-> m, day |-> d]

\* the last day of the month that lies k months after month m of year y
MonthEndAfter(y, m, k) ==
    LET t  == y * 12 + (m - 1) + k + 1
    IN  DaysFromCivil(t \div 12, (t % 12) + 1, 1) - 1

\* date + pd.tseries.offsets.MonthEnd(n)
AddMonthEnd(date, n) ==
    LET c     == CivilFromDays(date)
        onEnd == date = MonthEndAfter(c.year, c.month, 0)
    IN  IF onEnd THEN MonthEndAfter(c.year, c.month, n)
        ELSE MonthEndAfter(c.year, c.month, (IF n <= 0 THEN n + 1 ELSE n) - 1)

\* date + pd.tseries.offsets.YearBegin(n), n # 0
AddYearBegin(date, n) ==
    LET c == CivilFromDays(date)
    IN  IF n > 0 THEN DaysFromCivil(c.year + n, 1, 1)
        ELSE DaysFromCivil(c.year + n + 1 - (IF c.month = 1 /\ c.day = 1 THEN 1 ELSE 0),
                           1, 1)

\* the offsets of the model
MonthEnd(n) == [kind |-> "MonthEnd", n |-> n]

YearBegin(n) == [kind |-> "YearBegin", n |-> n]

DateOffset(days) == [kind |-> "DateOffset", n |-> days]

\* initial + t
AddOffset(date, t) ==
    IF t.kind = "MonthEnd" THEN AddMonthEnd(date, t.n)
    ELSE IF t.kind = "YearBegin" THEN AddYearBegin(date, t.n)
    ELSE date + t.n

MonthAbbr ==
    <<"Jan", "Feb", "Mar", "Apr", "May", "Jun", "Jul", "Aug", "Sep", "Oct", "Nov", "Dec">>

\* date.strftime('%b %Y')
strftime_bY(date) ==
    LET c == CivilFromDays(date) IN MonthAbbr[c.month] \o " " \o ToString(c.year)

----------------------------------------------------------------------------
(* Net worth: calculate_net_worth, calculate_growth *)

\* pf.constants.DAYS_IN_YEAR, 365.25, in hundredths of a day
DAYS_IN_YEAR_x100 == 36525

\* the dates an account table is drawn from: 2016-01-15, 2016-01-31,
\* 2016-02-29, 2016-03-15
IndexDates ==
    { DaysFromCivil(2016, 1, 15), DaysFromCivil(2016, 1, 31),
      DaysFromCivil(2016, 2, 29), DaysFromCivil(2016, 3, 15) }

\* the account columns (Account Type, Account Name)
AccountColumns == { <<"Cash", "Checking">>, <<"Credit", "CreditCard">> }

\* a balance: <<v>>, or <<>> when there is no value (NaN)
Balances == { <<>>, <<0>>, <<1000>>, <<500>>, <<-200>> }

AccountTables ==
    UNION { [idx -> [AccountColumns -> Balances]] :
              idx \in {S \in SUBSET IndexDates : Cardinality(S) \in 1 .. MaxRows} }

\* the offsets arguments: none (the defaults apply), and two lists
OffsetArgs ==
    { <<>>,
      << <<"Now", <<>> >>, <<"1 Mo", <<MonthEnd(-1)>> >>,
         <<"YTD", <<YearBegin(-1), MonthEnd(1)>> >> >>,
      << <<"16 d", <<DateOffset(-16)>> >>, <<"29 d", <<DateOffset(-29)>> >>,
         <<"0 d", <<DateOffset(0)>> >> >> }

\* accounts[accounts > 0.0] for sign 1 and accounts[accounts < 0.0] for sign -1:
\* the cells that fail the condition, or are missing, go missing
Mask(accts, sign) ==
    [d \in DOMAIN accts |->
        [a \in DOMAIN accts[d] |->
            IF accts[d][a] # <<>> /\ Sign(accts[d][a][1]) = sign THEN accts[d][a] ELSE <<>>]]

\* frame.fillna(0.0).sum(1)
FillNaSum(frame) ==
    [d \in DOMAIN frame |->
        SumOver([a \in DOMAIN frame[d] |-> IF frame[d][a] = <<>> THEN 0 ELSE frame[d][a][1]],
                DOMAIN frame[d])]

\* the first and the last date of a table indexed by ascending dates
First(t) == CHOOSE d \in DOMAIN t : \A e \in DOMAIN t : d <= e

Last(t) == CHOOSE d \in DOMAIN t : \A e \in DOMAIN t : d >= e

\* the row before date d, if any
HasPrev(t, d) == \E e \in DOMAIN t : e < d

Prev(t, d) == CHOOSE e \in DOMAIN t : e < d /\ \A f \in DOMAIN t : f < d => f <= e

\* series.diff(1).fillna(0.0) at date d
Diff(series, d) == IF HasPrev(series, d) THEN series[d] - series[Prev(series, d)] ELSE 0

\* 100.0 * series.pct_change().fillna(0.0) at date d
PctChange(series, d) ==
    IF ~HasPrev(series, d) THEN [n |-> 0, d |-> 1]
    ELSE LET q == Quot(series[d] - series[Prev(series, d)], series[Prev(series, d)])
         IN  IF IsNull(q) THEN [n |-> 0, d |-> 1] ELSE Scale(100, q)

NetWorthColumns ==
    { "Assets", "Debts", "Net", "Debt Ratio",
      "Assets Change ($)", "Assets Change (%)", "Debts Change ($)", "Debts Change (%)",
      "Net Change ($)", "Net Change (%)" }

\* Assets summing every balance, whatever its sign
calculate_net_worth_unmasked(accts) ==
    LET assets == FillNaSum(accts)
        debts  == FillNaSum(Mask(accts, -1))
        net    == [d \in DOMAIN accts |-> assets[d] + debts[d]]
    IN  [d \in DOMAIN accts |->
            [c \in NetWorthColumns |->
                CASE c = "Assets" -> assets[d]
                  [] c = "Debts" -> debts[d]
                  [] c = "Net" -> net[d]
                  [] c = "Debt Ratio" -> Scale(100, Quot(Abs(debts[d]), assets[d]))
                  [] c = "Assets Change ($)" -> Diff(assets, d)
                  [] c = "Assets Change (%)" -> PctChange(assets, d)
                  [] c = "Debts Change ($)" -> Diff(debts, d)
                  [] c = "Debts Change (%)" -> PctChange(debts, d)
                  [] c = "Net Change ($)" -> Diff(net, d)
                  [] c = "Net Change (%)" -> PctChange(net, d)]]

calculate_net_worth(accts) ==
    LET assets == FillNaSum(Mask(accts, 1))
        debts  == FillNaSum(Mask(accts, -1))
        net    == [d \in DOMAIN accts |-> assets[d] + debts[d]]
    IN  [d \in DOMAIN accts |->
            [c \in NetWorthColumns |->
                CASE c = "Assets" -> assets[d]
                  [] c = "Debts" -> debts[d]
                  [] c = "Net" -> net[d]
                  [] c = "Debt Ratio" -> Scale(100, Quot(Abs(debts[d]), assets[d]))
                  [] c = "Assets Change ($)" -> Diff(assets, d)
                  [] c = "Assets Change (%)" -> PctChange(assets, d)
                  [] c = "Debts Change ($)" -> Diff(debts, d)
                  [] c = "Debts Change (%)" -> PctChange(debts, d)
                  [] c = "Net Change ($)" -> Diff(net, d)
                  [] c = "Net Change (%)" -> PctChange(net, d)]]

\* the offsets calculate_growth uses when it is given none
DefaultOffsets(nw) ==
    << <<"1 Mo", <<MonthEnd(-1)>> >>,
       <<"3 Mo", <<MonthEnd(-3)>> >>,
       <<"6 Mo", <<MonthEnd(-6)>> >>,
       <<"YTD", <<YearBegin(-1), MonthEnd(1)>> >>,
       <<"1 Yr", <<MonthEnd(-1 * 12)>> >>,
       <<"2 Yr", <<MonthEnd(-2 * 12)>> >>,
       <<"3 Yr", <<MonthEnd(-3 * 12)>> >>,
       <<"4 Yr", <<MonthEnd(-4 * 12)>> >>,
       <<"5 Yr", <<MonthEnd(-5 * 12)>> >>,
       <<"Life", <<DateOffset(-(Last(nw) - First(nw)))>> >> >>

\* offsets if offsets else [...]
OffsetsOrDefault(nw, offs) == IF offs = <<>> THEN DefaultOffsets(nw) ELSE offs

RECURSIVE InitialDate(_, _, _)
\* for t in offset: initial = initial + t, from the i-th offset on
InitialDate(date, offset, i) ==
    IF i > Len(offset) THEN date
    ELSE InitialDate(AddOffset(date, offset[i]), offset, i + 1)

RECURSIVE Gcd(_, _)
Gcd(a, b) == IF b = 0 THEN a ELSE Gcd(b, a % b)

\* the same quotient in lowest terms
Reduce(q) ==
    IF q.d = 0 THEN q
    ELSE LET g == Gcd(Abs(q.n), q.d) IN [n |-> q.n \div g, d |-> q.d \div g]

\* q.round(2): to the nearest hundredth, a tie to the even one
Round2(q) ==
    IF q.d = 0 THEN q
    ELSE LET r   == Reduce(q)
             num == 100 * r.n
             h   == num \div r.d
             rem == num - h * r.d
             up  == 2 * rem > r.d \/ (2 * rem = r.d /\ h % 2 = 1)
         IN  [n |-> IF up THEN h + 1 ELSE h, d |-> 100]

\* q / years, for a number of years >= 0 given as a fraction
DivByYears(q, years) ==
    IF q.d = 0 THEN q
    ELSE IF years.n = 0 THEN [n |-> Sign(q.n), d |-> 0]
    ELSE LET r == Reduce(q)
             y == Reduce(years)
         IN  Reduce([n |-> r.n * y.d, d |-> r.d * y.n])

\* the CAGR cell when 1.0 / number_of_years is taken as a float quotient
\* that cannot raise
CagrNoRaise(final, initial, years) ==
    [pow |-> Quot(final, initial), years |-> years]

\* the CAGR cell: 1.0 / number_of_years raises ZeroDivisionError for zero
\* years, and the handler puts zeros; otherwise the power is left unevaluated
Cagr(final, initial, years) ==
    IF years.n = 0 THEN [n |-> 0, d |-> 1]
    ELSE [pow |-> Quot(final, initial), years |-> years]

\* the six rows of one interval
GrowthRows(nw, offstr, initial, final) ==
    LET columns == {"Assets", "Debts", "Net"}
        number_of_days  == final - initial
        number_of_years == Quot(number_of_days * 100, DAYS_IN_YEAR_x100)
        fin   == [c \in columns |-> nw[final][c]]
        ini   == [c \in columns |-> nw[initial][c]]
        delta == [c \in columns |-> fin[c] - ini[c]]
        gains == [c \in columns |-> Scale(100, Quot(delta[c], ini[c]))]
        annualized_gains == [c \in columns |-> DivByYears(gains[c], number_of_years)]
        cagr  == [c \in columns |-> Cagr(fin[c], ini[c], number_of_years)]
        row(kind, vals) ==
            [Period |-> offstr, Growth |-> kind,
             Assets |-> vals["Assets"], Debts |-> vals["Debts"], Net |-> vals["Net"]]
    IN  << row(strftime_bY(final), fin),
           row(strftime_bY(initial), ini),
           row("Delta", delta),
           row("Gain", [c \in columns |-> Round2(gains[c])]),
           row("Ann Gain", [c \in columns |-> Round2(annualized_gains[c])]),
           row("CAGR", cagr) >>

RECURSIVE GrowthFrom(_, _, _)
\* calculate_growth's loop from the i-th interval on: the rows appended, and
\* the exception raised if any.  net_worth.loc[initial] raises KeyError for a
\* date that is no row of the table.
GrowthFrom(nw, offs, i) ==
    IF i > Len(offs) THEN [growth |-> <<>>, error |-> ""]
    ELSE LET final   == Last(nw)
             initial == InitialDate(final, offs[i][2], 1)
         IN  IF initial >= First(nw)
             THEN IF initial \notin DOMAIN nw THEN [growth |-> <<>>, error |-> "KeyError"]
                  ELSE LET rest == GrowthFrom(nw, offs, i + 1)
                       IN  [growth |-> GrowthRows(nw, offs[i][1], initial, final)
                                           \o rest.growth,
                            error  |-> rest.error]
             ELSE GrowthFrom(nw, offs, i + 1)

calculate_growth(nw, offs) ==
    LET r == GrowthFrom(nw, OffsetsOrDefault(nw, offs), 1)
    IN  [growth |-> IF r.error = "" THEN r.growth ELSE <<>>, error |-> r.error]

(* get_milestones *)

\* the milestones get_milestones uses when it is given none
DefaultMilestones ==
    << 10000, 25000, 50000, 75000, 100000, 150000, 200000, 250000, 500000, 750000,
       1000000, 1500000, 2000000 >>

\* milestones if milestones else np.array([...])
MilestonesOrDefault(ms) == IF ms = <<>> THEN DefaultMilestones ELSE ms

\* the milestones arguments: none (the defaults apply), and a list
MilestoneArgs == { <<>>, <<500, 1500>> }

\* what datetime.datetime.today() can return: a day, at midnight or later in it
TodayArgs ==
    { [day |-> DaysFromCivil(2016, 2, 1), midnight |-> TRUE],
      [day |-> DaysFromCivil(2016, 2, 1), midnight |-> FALSE] }

\* networth['Net'] >= milestone: the dates where it holds
gt_milestone(nw, milestone) == {d \in DOMAIN nw : nw[d]["Net"] >= milestone}

\* the last of a set of dates
LastOf(S) == CHOOSE d \in S : \A e \in S : d >= e

\* gt_milestone[gt_milestone].index[0]
FirstOf(S) == CHOOSE d \in S : \A e \in S : d <= e

\* (milestone_date - datetime.datetime.today()).days: whole days, rounded down
DaysUntil(date, now) == date - now.day - (IF now.midnight THEN 0 ELSE 1)

\* pf.util.get_age: the age at a date, left unevaluated
get_age(date) == [age_at |-> date]

\* the tuple appended for one milestone; <<>> stands for None
MilestoneRow(nw, milestone, now) ==
    LET gt == gt_milestone(nw, milestone)
    IN  IF gt # {}
        THEN LET milestone_date == FirstOf(gt)
             IN  [Date      |-> <<milestone_date>>,
                  Milestone |-> milestone,
                  Actual    |-> nw[milestone_date]["Net"],
                  Age       |-> <<get_age(milestone_date)>>,
                  Years     |-> <<Quot(DaysUntil(milestone_date, now) * 100,
                                       DAYS_IN_YEAR_x100)>>]
        ELSE [Date      |-> <<>>,
              Milestone |-> milestone,
              Actual    |-> -(milestone - nw[Last(nw)]["Net"]),
              Age       |-> <<>>,
              Years     |-> <<>>]

get_milestones(nw, ms, now) ==
    LET m == MilestonesOrDefault(ms)
    IN  [i \in 1 .. Len(m) |-> MilestoneRow(nw, m[i], now)]

(* The calls *)

CalculateNetWorth ==
    /\ op = ""
    /\ net_worth' = calculate_net_worth(accounts)
    /\ op' = "calculate_net_worth"
    /\ UNCHANGED <<error, accounts, offsets, growth, milestones, today, milestone_data,
                   stmt_vars, agg_vars, metric_vars>>

CalculateGrowth ==
    /\ op = "calculate_net_worth"
    /\ \E offs \in OffsetArgs :
        /\ offsets' = offs
        /\ growth' = calculate_growth(net_worth, offs).growth
        /\ error' = calculate_growth(net_worth, offs).error
    /\ op' = "calculate_growth"
    /\ UNCHANGED <<accounts, net_worth, milestones, today, milestone_data,
                   stmt_vars, agg_vars, metric_vars>>

InitWorth ==
    /\ op = ""
    /\ error = ""
    /\ accounts \in AccountTables
    /\ net_worth = <<>>
    /\ offsets = <<>>
    /\ growth = <<>>
    /\ milestones = <<>>
    /\ today = <<>>
    /\ milestone_data = <<>>
    /\ summary = <<>>
    /\ metrics = <<>>
    /\ table = <<>>
    /\ period = [is_list |-> TRUE, list |-> <<>>]
    /\ nettax = <<>>
    /\ statement = <<>>
    /\ transactions = <<>>
    /\ paychecks = <<>>
    /\ tax_type = <<>>
    /\ category_dict = <<>>
    /\ leaf_dict = <<>>
    /\ daily = <<>>

GetMilestones ==
    /\ op = "calculate_net_worth"
    /\ \E ms \in MilestoneArgs, now \in TodayArgs :
        /\ milestones' = ms
        /\ today' = now
        /\ milestone_data' = get_milestones(net_worth, ms, now)
    /\ op' = "get_milestones"
    /\ UNCHANGED <<error, accounts, net_worth, offsets, growth,
                   stmt_vars, agg_vars, metric_vars>>

NextWorth == CalculateNetWorth \/ CalculateGrowth \/ GetMilestones

SpecWorth == InitWorth /\ [][NextWorth]_vars

(* Claims about the net worth *)

WorthDone == op \in {"calculate_net_worth", "calculate_growth"}

\* the sum of the balances of date d that are present and of the given sign
BalanceSum(d, sign) ==
    SumOver([a \in AccountColumns |->
                IF accounts[d][a] # <<>> /\ Sign(accounts[d][a][1]) = sign
                THEN accounts[d][a][1] ELSE 0],
            AccountColumns)

\* C8: for every day of the table returned by calculate_net_worth, Assets is
\* the sum of the strictly positive balances, Debts the sum of the strictly
\* negative ones, Assets >= 0, Debts <= 0 and Net = Assets + Debts; a day with
\* the balances 1000 and -200 has Assets 1000, Debts -200, Net 800 and
\* Debt Ratio 20.
C8_NetWorthRows ==
    WorthDone =>
        /\ DOMAIN net_worth = DOMAIN accounts
        /\ \A d \in DOMAIN accounts :
            /\ net_worth[d]["Assets"] = BalanceSum(d, 1)
            /\ net_worth[d]["Debts"] = BalanceSum(d, -1)
            /\ net_worth[d]["Assets"] >= 0
            /\ net_worth[d]["Debts"] <= 0
            /\ net_worth[d]["Net"] = net_worth[d]["Assets"] + net_worth[d]["Debts"]
            /\ (accounts[d][<<"Cash", "Checking">>] = <<1000>>
                    /\ accounts[d][<<"Credit", "CreditCard">>] = <<-200>>)
                => /\ net_worth[d]["Assets"] = 1000
                   /\ net_worth[d]["Debts"] = -200
                   /\ net_worth[d]["Net"] = 800
                   /\ QuotIs(net_worth[d]["Debt Ratio"], 20)

\* calculate_net_worth has returned a table with a day of balances 1000 and
\* -200 and a day with a missing and a negative balance
C8_Witness ==
    /\ op = "calculate_net_worth"
    /\ \E d \in DOMAIN accounts :
        /\ accounts[d][<<"Cash", "Checking">>] = <<1000>>
        /\ accounts[d][<<"Credit", "CreditCard">>] = <<-200>>
    /\ \E d \in DOMAIN accounts :
        /\ accounts[d][<<"Cash", "Checking">>] = <<-200>>
        /\ accounts[d][<<"Credit", "CreditCard">>] = <<>>

\* the intervals calculate_growth was called with
Intervals == OffsetsOrDefault(net_worth, offsets)

InitialOf(i) == InitialDate(Last(net_worth), Intervals[i][2], 1)

\* the i-th interval's initial date does not precede the first date
Kept(i) == InitialOf(i) >= First(net_worth)

\* the number of kept intervals before the i-th
KeptBefore(i) == Cardinality({j \in 1 .. (i - 1) : Kept(j)})

GrowthLabels(i) ==
    << strftime_bY(Last(net_worth)), strftime_bY(InitialOf(i)),
       "Delta", "Gain", "Ann Gain", "CAGR" >>

\* C9: an interval whose initial date precedes the first date of the table
\* contributes no row, and every other interval contributes exactly six rows
\* (final, initial, Delta, Gain, Ann Gain, CAGR), in the order of the intervals.
C9_SixRowsPerKeptInterval ==
    op = "calculate_growth" =>
        /\ error = ""
        /\ Len(growth) = 6 * Cardinality({i \in 1 .. Len(Intervals) : Kept(i)})
        /\ \A i \in 1 .. Len(Intervals) :
            Kept(i) =>
                \A k \in 1 .. 6 :
                    /\ 6 * KeptBefore(i) + k \in DOMAIN growth
                    /\ growth[6 * KeptBefore(i) + k].Period = Intervals[i][1]
                    /\ growth[6 * KeptBefore(i) + k].Growth = GrowthLabels(i)[k]

Zero == [n |-> 0, d |-> 1]

\* C10: an interval whose initial date is the final date raises no error, and
\* its CAGR row is zero for Assets, Debts and Net: the call never ends in a
\* ZeroDivisionError, an error of the call comes from an interval of another
\* initial date, and in the table returned the sixth row of such an interval
\* is the CAGR row with three zeros.
C10_ZeroYearsCagrZero ==
    op = "calculate_growth" =>
        /\ error # "ZeroDivisionError"
        /\ error # "" =>
            \E i \in 1 .. Len(Intervals) :
                Kept(i) /\ InitialOf(i) # Last(net_worth) /\ InitialOf(i) \notin DOMAIN net_worth
        /\ error = "" =>
            \A i \in 1 .. Len(Intervals) :
                InitialOf(i) = Last(net_worth) =>
                    LET r == growth[6 * KeptBefore(i) + 6]
                    IN  /\ r.Period = Intervals[i][1]
                        /\ r.Growth = "CAGR"
                        /\ r.Assets = Zero /\ r.Debts = Zero /\ r.Net = Zero

\* calculate_growth has returned a table with an interval of zero years whose
\* values are not zero, after an interval of more than zero years
C10_Witness ==
    /\ op = "calculate_growth"
    /\ error = ""
    /\ \E i \in 1 .. Len(Intervals) :
        /\ InitialOf(i) = Last(net_worth)
        /\ KeptBefore(i) > 0
        /\ net_worth[Last(net_worth)]["Assets"] > 0
        /\ net_worth[Last(net_worth)]["Debts"] < 0

(* Claims about the milestones *)

\* C11: for every milestone given to get_milestones: if no day of the Net
\* series is >= the milestone, the entry has null Date, Age and Years and a
\* strictly negative Actual, -(milestone - last Net); otherwise Date is the
\* first day whose Net is >= the milestone and Actual is the Net of that day,
\* so Actual >= milestone.
C11_Milestones ==
    op = "get_milestones" =>
        LET m == MilestonesOrDefault(milestones)
        IN  /\ Len(milestone_data) = Len(m)
            /\ \A i \in 1 .. Len(m) :
                LET e == milestone_data[i]
                    reached == {d \in DOMAIN net_worth : net_worth[d]["Net"] >= m[i]}
                IN  /\ e.Milestone = m[i]
                    /\ reached = {} =>
                        /\ e.Date = <<>> /\ e.Age = <<>> /\ e.Years = <<>>
                        /\ e.Actual < 0
                        /\ e.Actual = -(m[i] - net_worth[Last(net_worth)]["Net"])
                    /\ reached # {} =>
                        /\ e.Date # <<>>
                        /\ e.Date[1] \in reached
                        /\ \A d \in reached : e.Date[1] <= d
                        /\ e.Actual = net_worth[e.Date[1]]["Net"]
                        /\ e.Actual >= m[i]

\* get_milestones has returned a table with a milestone never reached and a
\* milestone reached on the first day and again on a later day
C11_Witness ==
    /\ op = "get_milestones"
    /\ \E i, j \in DOMAIN milestone_data :
        /\ milestone_data[i].Date = <<>>
        /\ milestone_data[j].Date = <<First(net_worth)>>
        /\ Last(net_worth) # First(net_worth)
        /\ net_worth[Last(net_worth)]["Net"] >= milestone_data[j].Milestone

----------------------------------------------------------------------------
(* Summary and metrics: calc_metrics *)

\* the float n
Q(k) == [n |-> k, d |-> 1]

\* -q
QNeg(q) == [n |-> -q.n, d |-> q.d]

\* a + b
QAdd(a, b) ==
    IF IsNull(a) \/ IsNull(b) THEN NaN
    ELSE IF a.d = 0 THEN (IF b.d = 0 /\ b.n # a.n THEN NaN ELSE a)
    ELSE IF b.d = 0 THEN b
    ELSE Reduce([n |-> a.n * b.d + b.n * a.d, d |-> a.d * b.d])

\* a - b
QSub(a, b) == QAdd(a, QNeg(b))

\* a * b
QMul(a, b) ==
    IF IsNull(a) \/ IsNull(b) THEN NaN
    ELSE IF a.d = 0 \/ b.d = 0 THEN [n |-> Sign(a.n) * Sign(b.n), d |-> 0]
    ELSE Reduce([n |-> a.n * b.n, d |-> a.d * b.d])

\* a / b
QDiv(a, b) ==
    IF IsNull(a) \/ IsNull(b) THEN NaN
    ELSE IF b.d = 0 THEN (IF a.d = 0 THEN NaN ELSE Q(0))
    ELSE IF a.d = 0 THEN [n |-> a.n * (IF b.n < 0 THEN -1 ELSE 1), d |-> 0]
    ELSE IF b.n = 0 THEN [n |-> Sign(a.n), d |-> 0]
    ELSE Reduce(Quot(a.n * b.d, a.d * b.n))

\* the columns of the summary, and those calc_metrics smooths
SummaryColumns ==
    { "Assets", "Debts", "Net", "Total Income", "Realized Income", "Expense + Loans",
      "Expense", "Taxes", "Credit Line", "Sales Tax" }

cols ==
    { "Total Income", "Realized Income", "Expense + Loans", "Expense", "Taxes", "Sales Tax" }

\* a row of the summary: the net worth, and yearly estimates of the flows,
\* expenses and taxes being negative
SummaryRows ==
    { ("Assets" :> Q(net + 200)) @@ ("Debts" :> Q(-200)) @@ ("Net" :> Q(net))
        @@ ("Total Income" :> Q(4800)) @@ ("Realized Income" :> Q(income))
        @@ ("Expense + Loans" :> Q(expense - 300)) @@ ("Expense" :> Q(expense))
        @@ ("Taxes" :> Q(-600)) @@ ("Credit Line" :> Q(1000)) @@ ("Sales Tax" :> Q(-60)) :
        net \in {1000, 30000}, income \in {2400, 3600}, expense \in {-1200, -2400} }

\* the summaries: one row per month, the months numbered in order
SummaryTables == UNION { [1 .. k -> SummaryRows] : k \in 1 .. MaxRows }

\* the default swr, 0.04
DefaultSwr == [n |-> 4, d |-> 100]

\* summary[cols].expanding().mean(): at each row, the mean of the column up to it
ExpandingMean(smry) ==
    [d \in DOMAIN smry |->
        [c \in DOMAIN smry[d] |->
            IF c \in cols
            THEN QDiv(Reduce(FiniteSum([e \in 1 .. d |-> smry[e][c]], 1 .. d)), Q(d))
            ELSE smry[d][c]]]

\* a row of the metrics, from the row r of the summary
MetricsRow(r, swr) ==
    LET taxes == QAdd(r["Taxes"], r["Sales Tax"])
    IN  ("Debt Ratio [%]" :> QDiv(QMul(Q(100), QNeg(r["Debts"])), r["Assets"]))
        @@ ("Debt to Income [%]" :>
                QDiv(QMul(Q(100), QNeg(r["Debts"])), r["Realized Income"]))
        @@ ("Debt Utilization [%]" :>
                QDiv(QMul(Q(100), QNeg(r["Debts"])), r["Credit Line"]))
        @@ ("Income Net Multiple [Yr]" :> QDiv(r["Net"], r["Realized Income"]))
        @@ ("Expense Net Multiple [Yr]" :> QDiv(r["Net"], QNeg(r["Expense"])))
        @@ ("Profit Margin [%]" :>
                QDiv(QMul(Q(100), QAdd(r["Realized Income"], r["Expense"])),
                     r["Realized Income"]))
        @@ ("SWR Expense Covered [%]" :>
                QDiv(QMul(Q(100), QMul(swr, r["Net"])), QNeg(r["Expense"])))
        @@ ("SWR Income Covered [%]" :>
                QDiv(QMul(Q(100), QMul(swr, r["Net"])), r["Realized Income"]))
        @@ ("Realized Income to Net [%]" :>
                QDiv(QMul(Q(100), r["Realized Income"]), r["Net"]))
        @@ ("Total Income Tax Rate [%]" :>
                QDiv(QMul(Q(-100), r["Taxes"]), r["Total Income"]))
        @@ ("Realized Income Tax Rate [%]" :>
                QDiv(QMul(Q(-100), r["Taxes"]), r["Realized Income"]))
        @@ ("Income Tax to Net [%]" :> QDiv(QMul(Q(-100), r["Taxes"]), r["Net"]))
        @@ ("Income Tax to Expense [%]" :>
                QDiv(QMul(Q(-100), r["Taxes"]), QNeg(r["Expense"])))
        @@ ("Total Sales Tax Rate [%]" :>
                QDiv(QMul(Q(-100), r["Sales Tax"]), r["Total Income"]))
        @@ ("Realized Sales Tax Rate [%]" :>
                QDiv(QMul(Q(-100), r["Sales Tax"]), r["Realized Income"]))
        @@ ("Sales Tax to Net [%]" :> QDiv(QMul(Q(-100), r["Sales Tax"]), r["Net"]))
        @@ ("Sales Tax to Expense [%]" :>
                QDiv(QMul(Q(-100), r["Sales Tax"]), QNeg(r["Expense"])))
        @@ ("Total Tax Rate [%]" :> QDiv(QMul(Q(-100), taxes), r["Total Income"]))
        @@ ("Realized Total Tax Rate [%]" :>
                QDiv(QMul(Q(-100), taxes), r["Realized Income"]))
        @@ ("Total Tax to Net [%]" :> QDiv(QMul(Q(-100), taxes), r["Net"]))
        @@ ("Total Tax to Expense [%]" :>
                QDiv(QMul(Q(-100), taxes), QNeg(r["Expense"])))
        @@ ("FI Amount [$]" :> QMul(Q(25), QNeg(r["Expense"])))
        @@ ("FI Shortfall [$]" :> QSub(QMul(Q(25), QNeg(r["Expense"])), r["Net"]))
        @@ ("FI Percent [%]" :>
                QDiv(QMul(Q(100), r["Net"]), QMul(Q(25), QNeg(r["Expense"]))))

\* calc_metrics: the summary as the call leaves it, and the table returned
calc_metrics(smry, swr) ==
    LET smoothed == ExpandingMean(smry)
    IN  [summary |-> smoothed,
         metrics |-> [d \in DOMAIN smoothed |-> MetricsRow(smoothed[d], swr)]]

(* The call: the caller passes the same summary object to each call *)

CalcMetrics ==
    /\ Len(metrics) < 2
    /\ summary' = calc_metrics(summary, DefaultSwr).summary
    /\ metrics' = Append(metrics, calc_metrics(summary, DefaultSwr).metrics)
    /\ op' = "calc_metrics"
    /\ UNCHANGED <<error, stmt_vars, agg_vars, worth_vars>>

InitMetrics ==
    /\ op = ""
    /\ error = ""
    /\ summary \in SummaryTables
    /\ metrics = <<>>
    /\ accounts = <<>>
    /\ net_worth = <<>>
    /\ offsets = <<>>
    /\ growth = <<>>
    /\ milestones = <<>>
    /\ today = <<>>
    /\ milestone_data = <<>>
    /\ table = <<>>
    /\ period = [is_list |-> TRUE, list |-> <<>>]
    /\ nettax = <<>>
    /\ statement = <<>>
    /\ transactions = <<>>
    /\ paychecks = <<>>
    /\ tax_type = <<>>
    /\ category_dict = <<>>
    /\ leaf_dict = <<>>
    /\ daily = <<>>

NextMetrics == CalcMetrics

SpecMetrics == InitMetrics /\ [][NextMetrics]_vars

(* Claims about the metrics *)

\* C12: calling calc_metrics twice in succession with the same summary object
\* returns equal tables both times, and the summary holds the same values
\* after a call as before it.
C12_Idempotent ==
    /\ [](Len(metrics) = 2 => metrics[1] = metrics[2])
    /\ [][summary' = summary]_vars

\* C14: for every row of the summary, calc_metrics reports
\* FI Amount = 25 * -Expense, FI Shortfall = Net - (25 * -Expense) and
\* FI Percent = Net / (25 * -Expense) as a percentage, Net and Expense being
\* the row's values in the summary after the call.
C14_FIMetricsAsDocumented ==
    op = "calc_metrics" =>
        \A d \in DOMAIN summary :
            LET fi  == QMul(Q(25), QNeg(summary[d]["Expense"]))
                row == metrics[Len(metrics)][d]
            IN  /\ row["FI Amount [$]"] = fi
                /\ row["FI Shortfall [$]"] = QSub(summary[d]["Net"], fi)
                /\ row["FI Percent [%]"] = QDiv(QMul(Q(100), summary[d]["Net"]), fi)

----------------------------------------------------------------------------
(* Claims about the Net rows of the statements *)

\* the nettax the caller asked for: {'Taxes'} when none was given
NetTaxAsked == IF nettax = <<>> THEN {"Taxes"} ELSE nettax[1]

\* C13: for every period of income_statement, the row
\* (Net, Net Income, Before Taxes) is the sum of the Category-level totals of
\* the Categories not in nettax ({'Taxes'} when nettax is not given), the row
\* (Net, Net Income, After Taxes) is the sum of the Category-level totals of
\* all Categories, and the row (Net, Total, ' ') equals the After Taxes value.
C13_IncomeNetRows ==
    op = "income_statement" =>
        \A i \in DOMAIN statement :
            LET usd    == Col(statement[i].rows, "$")
                totals == [c \in TreeCategories |-> usd[<<c, "Total", " ">>]]
            IN  /\ usd[<<"Net", "Net Income", "Before Taxes">>]
                        = SumOver(totals, TreeCategories \ NetTaxAsked)
                /\ usd[<<"Net", "Net Income", "After Taxes">>]
                        = SumOver(totals, TreeCategories)
                /\ usd[<<"Net", "Total", " ">>] = usd[<<"Net", "Net Income", "After Taxes">>]

\* the value of leaf k over the i-th period of the statement: the sum of its
\* days in cashflow_statement, its last day in balance_sheet
PeriodValue(k, i) ==
    LET days == PeriodRows(statement[i].period)
    IN  IF op = "balance_sheet" THEN table[k][MaxOf(days)]
        ELSE SumOver(table[k], days)

----------------------------------------------------------------------------
(* Further claims about calculate_growth and calc_income *)

\* the dates of the net-worth table nearest to a date
Nearest(date) ==
    { d \in DOMAIN net_worth :
        \A e \in DOMAIN net_worth : Abs(d - date) <= Abs(e - date) }

\* C16: for every interval kept by calculate_growth the final and initial
\* values are those of the net-worth row nearest the final and initial dates;
\* an initial date inside the data range that is no date of the table is
\* reported from the nearest row, and no error is raised.
C16_NearestRow ==
    op = "calculate_growth" =>
        /\ error = ""
        /\ \A i \in 1 .. Len(Intervals) :
            Kept(i) =>
                /\ 6 * KeptBefore(i) + 2 \in DOMAIN growth
                /\ LET fin == growth[6 * KeptBefore(i) + 1]
                       ini == growth[6 * KeptBefore(i) + 2]
                   IN  /\ \E d \in Nearest(Last(net_worth)) :
                            \A c \in {"Assets", "Debts", "Net"} : fin[c] = net_worth[d][c]
                       /\ \E d \in Nearest(InitialOf(i)) :
                            \A c \in {"Assets", "Debts", "Net"} : ini[c] = net_worth[d][c]

\* C17: for a paycheck-sourced leaf of calc_income the value on each pay date
\* is the sum over the leaf's paycheck fields of weight x field, with no label
\* or tax-type filtering, and it is the same in whichever order the
\* 'categories' set is enumerated.
C17_PaycheckWeights ==
    (op = "calc_income" /\ error = "") =>
        \A k \in DOMAIN leaf_dict :
            leaf_dict[k].source = "paycheck" =>
                \A o \in Orders(category_dict[k]["categories"]) :
                    \A d \in DOMAIN paychecks :
                        leaf_dict[k].series[d]
                            = SumOver([i \in DOMAIN o |->
                                          category_dict[k]["agg"][i] * paychecks[d][o[i]]],
                                      DOMAIN o)

====
